---- MODULE Spec2Model ----
(***************************************************************************)
(* The search commands of the TheMovieDB cog (src/sudoTmdb/sudoTmdb.py):   *)
(* movie, tvshow and people.  Each normalizes the popularity of the search *)
(* results, sorts them by token_set_ratio(query, title/name) + popularity, *)
(* builds one page per result and starts a menu over the pages.            *)
(*                                                                         *)
(* Strings are sequences of code points (32 is the space), dicts are       *)
(* functions from field names to values, floats are exact fractions        *)
(* [num, den] with den > 0 (rounding of IEEE doubles is not modelled).     *)
(***************************************************************************)
EXTENDS Integers, Sequences, FiniteSets, TLC

VARIABLES cmd, query, data, results, pages, pc, err, current, shown,
          response, effects, args, tokens, model, size, seed, strength, guidance, prompt

vars == <<cmd, query, data, results, pages, pc, err, current, shown,
          response, effects, args, tokens, model, size, seed, strength, guidance, prompt>>

\* Longest result list drawn as input.
MaxLen == 3
\* Largest raw popularity drawn as input.
MaxPop == 2

(***************************************************************************)
(* Exact fractions standing for Python floats.                             *)
(***************************************************************************)
Frac(n, d) == [num |-> n, den |-> d]

FracAdd(a, b) == Frac(a.num * b.den + b.num * a.den, a.den * b.den)

FracLe(a, b) == a.num * b.den <= b.num * a.den

FracLt(a, b) == a.num * b.den < b.num * a.den

FracEq(a, b) == a.num * b.den = b.num * a.den

FracMax(a, b) == IF FracLt(a, b) THEN b ELSE a

(***************************************************************************)
(* rapidfuzz.fuzz.token_set_ratio(s1, s2), called with its defaults        *)
(* (no processor, score_cutoff 0) at the sort keys.                        *)
(***************************************************************************)
RECURSIVE SplitTokens(_, _, _)
\* str.split(): the maximal runs of non-space code points of s[i..], cur
\* being the run read so far.
SplitTokens(s, i, cur) ==
    IF i > Len(s)
    THEN IF cur = <<>> THEN <<>> ELSE <<cur>>
    ELSE IF s[i] = 32
         THEN IF cur = <<>>
              THEN SplitTokens(s, i + 1, <<>>)
              ELSE <<cur>> \o SplitTokens(s, i + 1, <<>>)
         ELSE SplitTokens(s, i + 1, Append(cur, s[i]))

TokenSet(s) == LET t == SplitTokens(s, 1, <<>>) IN {t[k] : k \in DOMAIN t}

\* Python's order on str: lexicographic by code point.
StrLess(a, b) ==
    \E k \in 1..(Len(a) + 1) :
        /\ k <= Len(b)
        /\ \A j \in 1..(k - 1) : a[j] = b[j]
        /\ (k = Len(a) + 1 \/ a[k] < b[k])

RECURSIVE JoinSorted(_)
\* " ".join(sorted(S))
JoinSorted(S) ==
    IF S = {} THEN <<>>
    ELSE LET m == CHOOSE x \in S : \A y \in S \ {x} : StrLess(x, y)
             rest == JoinSorted(S \ {m})
         IN IF rest = <<>> THEN m ELSE m \o <<32>> \o rest

RECURSIVE LcsLen(_, _, _, _)
\* Length of the longest common subsequence of a[i..] and b[j..].
LcsLen(a, b, i, j) ==
    IF i > Len(a) \/ j > Len(b) THEN 0
    ELSE IF a[i] = b[j] THEN 1 + LcsLen(a, b, i + 1, j + 1)
    ELSE LET x == LcsLen(a, b, i + 1, j)
             y == LcsLen(a, b, i, j + 1)
         IN IF x >= y THEN x ELSE y

\* Indel.distance: insertions and deletions turning a into b.
IndelDistance(a, b) == Len(a) + Len(b) - 2 * LcsLen(a, b, 1, 1)

\* norm_distance(dist, lensum, 0) = 100 - 100 * dist / lensum, or 100.
NormDistance(dist, lensum) ==
    IF lensum # 0 THEN Frac(100 * (lensum - dist), lensum) ELSE Frac(100, 1)

token_set_ratio(s1, s2) ==
    LET tokens_a == TokenSet(s1)
        tokens_b == TokenSet(s2)
        intersect == tokens_a \cap tokens_b
        diff_ab == tokens_a \ tokens_b
        diff_ba == tokens_b \ tokens_a
        diff_ab_joined == JoinSorted(diff_ab)
        diff_ba_joined == JoinSorted(diff_ba)
        ab_len == Len(diff_ab_joined)
        ba_len == Len(diff_ba_joined)
        sect_len == Len(JoinSorted(intersect))
        sep == IF sect_len # 0 THEN 1 ELSE 0
        sect_ab_len == sect_len + sep + ab_len
        sect_ba_len == sect_len + sep + ba_len
        result == NormDistance(IndelDistance(diff_ab_joined, diff_ba_joined),
                               sect_ab_len + sect_ba_len)
        sect_ab_ratio == NormDistance(sep + ab_len, sect_len + sect_ab_len)
        sect_ba_ratio == NormDistance(sep + ba_len, sect_len + sect_ba_len)
    IN  IF s1 = <<>> \/ s2 = <<>> THEN Frac(0, 1)
        ELSE IF tokens_a = {} \/ tokens_b = {} THEN Frac(0, 1)
        ELSE IF intersect # {} /\ (diff_ab = {} \/ diff_ba = {}) THEN Frac(100, 1)
        ELSE IF sect_len = 0 THEN result
        ELSE FracMax(FracMax(result, sect_ab_ratio), sect_ba_ratio)

(***************************************************************************)
(* Inputs.                                                                 *)
(***************************************************************************)
Commands == {"movie", "tvshow", "people"}

\* "a b", "c"
Queries == {<<97, 32, 98>>, <<99>>}

\* "a b", "b c"
Titles == {<<97, 32, 98>>, <<98, 32, 99>>}

\* The tvshow docstring's example query, "family guy", and as "Family Guy".
ScenarioQueries ==
    {<<102, 97, 109, 105, 108, 121, 32, 103, 117, 121>>,
     <<70, 97, 109, 105, 108, 121, 32, 71, 117, 121>>}

\* "Family Guy", "Family Matters"
ScenarioNames ==
    {<<70, 97, 109, 105, 108, 121, 32, 71, 117, 121>>,
     <<70, 97, 109, 105, 108, 121, 32, 77, 97, 116, 116, 101, 114, 115>>}

ScenarioPopularities == {50, 100}

\* str.lower() on the code points up to 255: A-Z and the Latin-1 capitals.
lower(s) ==
    [k \in DOMAIN s |->
        IF s[k] \in 65..90 \/ (s[k] \in 192..222 /\ s[k] # 215) THEN s[k] + 32 ELSE s[k]]

\* "utoya: july 22", "ut\o ya: july 22" (o-slash, code point 248), "22 july", "22 juli"
BLOCKED_SEARCH ==
    {<<117, 116, 111, 121, 97, 58, 32, 106, 117, 108, 121, 32, 50, 50>>,
     <<117, 116, 248, 121, 97, 58, 32, 106, 117, 108, 121, 32, 50, 50>>,
     <<50, 50, 32, 106, 117, 108, 121>>,
     <<50, 50, 32, 106, 117, 108, 105>>}

\* What the user may type: "a b", "22 july", "22 July", "UT\O YA: JULY 22" (with
\* the capital O-slash, code point 216).
CommandQueries ==
    {<<97, 32, 98>>,
     <<50, 50, 32, 106, 117, 108, 121>>,
     <<50, 50, 32, 74, 117, 108, 121>>,
     <<85, 84, 216, 89, 65, 58, 32, 74, 85, 76, 89, 32, 50, 50>>}

\* The scores of the inputs, computed once.
Similarity ==
    [q \in Queries \cup CommandQueries, t \in Titles |-> token_set_ratio(q, t)]
        @@ [q \in ScenarioQueries, t \in ScenarioNames |-> token_set_ratio(q, t)]


\* The field the command compares with the query.
TextField(c) == IF c = "movie" THEN "title" ELSE "name"

\* One search result of command c, as the API delivers it: its id, its
\* title/name and its popularity, either of the latter possibly missing.
ResultDict(c, id, t, p) ==
    [f \in ({"id"} \cup (IF t = <<>> THEN {} ELSE {TextField(c)})
                   \cup (IF p < 0 THEN {} ELSE {"popularity"})) |->
        IF f = "id" THEN id ELSE IF f = "popularity" THEN p ELSE t]

\* What may vary in a result: its title/name (<<>>: missing) and its raw
\* popularity (-1: missing).
Shapes == (Titles \cup {<<>>}) \X (-1..MaxPop)

\* The result list of command c with the shapes tp; ids are distinct.
ResultList(c, tp) == [k \in DOMAIN tp |-> ResultDict(c, k, tp[k][1], tp[k][2])]

(***************************************************************************)
(* Exceptions: the type and the argument of what the handler raised.       *)
(***************************************************************************)
NoError == [type |-> "none", arg |-> ""]

Raised(t, a) == [type |-> t, arg |-> a]

(***************************************************************************)
(* Normalization of the popularity scores.                                 *)
(***************************************************************************)
\* Faulty variant: a fresh dict of id and popularity, the other fields lost.
OnlyPopularity(result, v) ==
    [f \in {"id", "popularity"} |-> IF f = "popularity" THEN v ELSE result[f]]

\* {**result, "popularity": v}
WithPopularity(result, v) ==
    [f \in DOMAIN result \cup {"popularity"} |->
        IF f = "popularity" THEN v ELSE result[f]]

\* Faulty variant: the smallest popularity taken for the largest.
MinOf(ps) == CHOOSE m \in {ps[k] : k \in DOMAIN ps} : \A k \in DOMAIN ps : m <= ps[k]

\* max() of a non-empty sequence of numbers.
MaxOf(ps) == CHOOSE m \in {ps[k] : k \in DOMAIN ps} : \A k \in DOMAIN ps : ps[k] <= m

\* result.get("popularity", 0)
GetPopularity(result) ==
    IF "popularity" \in DOMAIN result THEN result["popularity"] ELSE 0

\* movie: (popularity / max_popularity) * 100 if max_popularity else 0
ScaledOrZero(p, max_popularity) ==
    IF max_popularity # 0 THEN Frac(p * 100, max_popularity) ELSE Frac(0, 1)

\* Faulty variant: the factor 100 forgotten.
ScaledToOne(p, max_popularity) == Frac(p, max_popularity)

\* tvshow, people: (popularity / max_popularity) * 100
Scaled(p, max_popularity) == Frac(p * 100, max_popularity)

\* Faulty variant: max(..., default=0), so that an empty list is let through.
NormalizeMovieDefault(rs) ==
    LET max_popularity == IF rs = <<>> THEN 0
                          ELSE MaxOf([k \in DOMAIN rs |-> GetPopularity(rs[k])])
    IN [err |-> NoError,
        results |-> [k \in DOMAIN rs |->
            WithPopularity(rs[k], ScaledOrZero(GetPopularity(rs[k]), max_popularity))]]

\* movie, the statements from max_popularity = ... to the rebinding of results.
NormalizeMovie(rs) ==
    IF rs = <<>> THEN [err |-> Raised("ValueError", "max"), results |-> rs]
    ELSE LET max_popularity == MaxOf([k \in DOMAIN rs |-> GetPopularity(rs[k])])
         IN [err |-> NoError,
             results |-> [k \in DOMAIN rs |->
                 WithPopularity(rs[k], ScaledOrZero(GetPopularity(rs[k]), max_popularity))]]

\* tvshow and people, the same statements.
NormalizeByKey(rs) ==
    IF \E k \in DOMAIN rs : "popularity" \notin DOMAIN rs[k]
    THEN [err |-> Raised("KeyError", "popularity"), results |-> rs]
    ELSE IF rs = <<>> THEN [err |-> Raised("ValueError", "max"), results |-> rs]
    ELSE LET max_popularity == MaxOf([k \in DOMAIN rs |-> rs[k]["popularity"]])
         IN IF max_popularity = 0
            THEN [err |-> Raised("ZeroDivisionError", "division by zero"), results |-> rs]
            ELSE [err |-> NoError,
                  results |-> [k \in DOMAIN rs |->
                      WithPopularity(rs[k], Scaled(rs[k]["popularity"], max_popularity))]]

\* The normalization of command c.
NormalizeResults(c, rs) == IF c = "movie" THEN NormalizeMovie(rs) ELSE NormalizeByKey(rs)

(***************************************************************************)
(* Ranking: sorted(results, key=..., reverse=True).                        *)
(***************************************************************************)
\* Faulty variant: the popularity left out of the key.
SimilarityOnly(q, field, x) == Similarity[q, x[field]]

\* The key lambda: token_set_ratio(query, x[field]) + x["popularity"].
RankScore(q, field, x) == FracAdd(Similarity[q, x[field]], x["popularity"])

\* Faulty variant: e placed before the elements of equal key (an unstable sort).
InsertBeforeEqual(s, e) ==
    LET k == Cardinality({j \in DOMAIN s : FracLt(e.key, s[j].key)})
    IN SubSeq(s, 1, k) \o <<e>> \o SubSeq(s, k + 1, Len(s))

\* Faulty variant: e dropped when its key is already present (keys held in a set).
InsertUnique(s, e) ==
    LET k == Cardinality({j \in DOMAIN s : FracLe(e.key, s[j].key)})
    IN IF \E j \in DOMAIN s : FracEq(e.key, s[j].key) THEN s
       ELSE SubSeq(s, 1, k) \o <<e>> \o SubSeq(s, k + 1, Len(s))

\* e placed behind every element whose key is not smaller: the list stays
\* sorted by descending key and equal keys keep their order of arrival.
InsertDescending(s, e) ==
    LET k == Cardinality({j \in DOMAIN s : FracLe(e.key, s[j].key)})
    IN SubSeq(s, 1, k) \o <<e>> \o SubSeq(s, k + 1, Len(s))

RECURSIVE SortedPrefix(_, _)
\* The first n elements of keyed, sorted.
SortedPrefix(keyed, n) ==
    IF n = 0 THEN <<>> ELSE InsertDescending(SortedPrefix(keyed, n - 1), keyed[n])

\* Faulty variant: x.get(field, "") in the key, so that a missing field scores 0.
SortedByScoreLenient(q, field, rs) ==
    LET keyed == [k \in DOMAIN rs |->
                    [key |-> IF field \in DOMAIN rs[k] THEN RankScore(q, field, rs[k])
                             ELSE rs[k]["popularity"],
                     val |-> rs[k]]]
        sorted == SortedPrefix(keyed, Len(keyed))
    IN [err |-> NoError, results |-> [k \in DOMAIN sorted |-> sorted[k].val]]

\* sorted(rs, key=..., reverse=True): a KeyError of the key propagates.
SortedByScore(q, field, rs) ==
    IF \E k \in DOMAIN rs : field \notin DOMAIN rs[k]
    THEN [err |-> Raised("KeyError", field), results |-> rs]
    ELSE LET keyed == [k \in DOMAIN rs |-> [key |-> RankScore(q, field, rs[k]), val |-> rs[k]]]
             sorted == SortedPrefix(keyed, Len(keyed))
         IN [err |-> NoError, results |-> [k \in DOMAIN sorted |-> sorted[k].val]]

(***************************************************************************)
(* What the handler does to the outside: messages sent, requests made, the *)
(* menu started, in order.                                                 *)
(***************************************************************************)
Effect(o, a) == [op |-> o, arg |-> a]

Did(o) == \E k \in DOMAIN effects : effects[k].op = o

Sent(what) == \E k \in DOMAIN effects : effects[k].op = "send" /\ effects[k].arg = what

\* The image commands' variables while a search command runs.
NoImageCommand ==
    /\ args = <<>>
    /\ tokens = <<>>
    /\ model = <<>>
    /\ size = <<>>
    /\ seed = 0
    /\ strength = <<>>
    /\ guidance = <<>>
    /\ prompt = <<>>

\* ctx.typing() and search_media(...) done, a dict returned and checked.
AfterSearch ==
    /\ response = "dict"
    /\ effects = <<Effect("typing", ""), Effect("search", query)>>
    /\ NoImageCommand

(***************************************************************************)
(* The handler, from results = data["results"] on.                         *)
(***************************************************************************)
NoPage == [index |-> 0]

\* Faulty variant: the page built from the unranked list.
PageOfUnranked(c, rs, i) == [index |-> i, id |-> data[i]["id"], kind |-> c]

\* The page of results[i]: built from its id (the embed, and for a movie the
\* Watch button's link).
PageOf(c, rs, i) == [index |-> i, id |-> rs[i]["id"], kind |-> c]

Init ==
    /\ cmd \in Commands
    /\ query \in Queries
    /\ \E n \in 0..MaxLen : \E tp \in [1..n -> Shapes] : data = ResultList(cmd, tp)
    /\ results = data
    /\ pages = <<>>
    /\ pc = "normalize"
    /\ err = NoError
    /\ current = 0
    /\ shown = NoPage
    /\ AfterSearch

Raise(e) ==
    /\ pc' = "raised"
    /\ err' = e
    /\ UNCHANGED <<results, pages, effects>>

Normalize ==
    /\ pc = "normalize"
    /\ LET out == NormalizeResults(cmd, results)
       IN IF out.err # NoError
          THEN Raise(out.err)
          ELSE /\ results' = out.results
               /\ pc' = "rank"
               /\ UNCHANGED <<pages, err, effects>>
    /\ UNCHANGED <<cmd, query, data, current, shown, response, args, tokens, model, size, seed, strength, guidance, prompt>>

Rank ==
    /\ pc = "rank"
    /\ LET out == SortedByScore(query, TextField(cmd), results)
       IN IF out.err # NoError
          THEN Raise(out.err)
          ELSE /\ results' = out.results
               /\ pc' = "pages"
               /\ UNCHANGED <<pages, err, effects>>
    /\ UNCHANGED <<cmd, query, data, current, shown, response, args, tokens, model, size, seed, strength, guidance, prompt>>

\* One round of for i in range(len(results)): get_media_data or
\* get_people_data for the id, then the page.
BuildPage ==
    /\ pc = "pages"
    /\ Len(pages) < Len(results)
    /\ pages' = Append(pages, PageOf(cmd, results, Len(pages) + 1))
    /\ effects' = Append(effects, Effect("fetch", results[Len(pages) + 1]["id"]))
    /\ UNCHANGED <<cmd, query, data, results, pc, err, current, shown>>
    /\ UNCHANGED <<response, args, tokens, model, size, seed, strength, guidance, prompt>>

\* SimpleMenu(pages, ...).start(ctx): the first page is shown.
StartMenu ==
    /\ pc = "pages"
    /\ Len(pages) = Len(results)
    /\ pc' = "menu"
    /\ current' = 1
    /\ shown' = pages[1]
    /\ effects' = Append(effects, Effect("menu", Len(pages)))
    /\ UNCHANGED <<cmd, query, data, results, pages, err>>
    /\ UNCHANGED <<response, args, tokens, model, size, seed, strength, guidance, prompt>>

\* The user asks the menu for page i.
ShowPage(i) ==
    /\ pc = "menu"
    /\ current' = i
    /\ shown' = pages[i]
    /\ UNCHANGED <<cmd, query, data, results, pages, pc, err>>
    /\ UNCHANGED <<response, effects, args, tokens, model, size, seed, strength, guidance, prompt>>

Next ==
    \/ Normalize
    \/ Rank
    \/ BuildPage
    \/ StartMenu
    \/ \E i \in DOMAIN pages : ShowPage(i)

Spec == Init /\ [][Next]_vars


(***************************************************************************)
(* The ranking alone, applied to every normalized list and to the empty    *)
(* list.                                                                   *)
(***************************************************************************)
InitRank ==
    /\ cmd \in Commands
    /\ query \in Queries
    /\ \E n \in 0..MaxLen : \E tp \in [1..n -> Shapes] :
          LET out == NormalizeResults(cmd, ResultList(cmd, tp))
          IN /\ data = ResultList(cmd, tp)
             /\ n = 0 \/ out.err = NoError
             /\ results = out.results
    /\ pages = <<>>
    /\ pc = "rank"
    /\ err = NoError
    /\ current = 0
    /\ shown = NoPage
    /\ AfterSearch

NextRank == Rank

SpecRank == InitRank /\ [][NextRank]_vars

(***************************************************************************)
(* The handler on lists of "Family Guy" and "Family Matters".              *)
(***************************************************************************)
InitScenario ==
    /\ cmd \in Commands
    /\ query \in ScenarioQueries
    /\ \E n \in 0..MaxLen : \E tp \in [1..n -> ScenarioNames \X ScenarioPopularities] :
          data = ResultList(cmd, tp)
    /\ results = data
    /\ pages = <<>>
    /\ pc = "normalize"
    /\ err = NoError
    /\ current = 0
    /\ shown = NoPage
    /\ AfterSearch

SpecScenario == InitScenario /\ [][Next]_vars

(***************************************************************************)
(* The whole handler, from the command's invocation.                       *)
(***************************************************************************)
\* Faulty variant: the query compared as typed, lower() left out.
BlockedAsTyped(c, q) == c \in {"movie", "tvshow"} /\ q \in BLOCKED_SEARCH

\* movie and tvshow: query.lower() in BLOCKED_SEARCH; people has no such test.
Blocked(c, q) == c \in {"movie", "tvshow"} /\ lower(q) \in BLOCKED_SEARCH

\* Faulty variant: the test of the search's return value left out.
NeverFalsy(r) == FALSE

\* not data
Falsy(r) == r = "None"

\* utils.search_media: None when the request failed, else the response dict.
search_media_returns == {"None", "dict"}

\* utils.check_results on the response's results: whether there are any, the
\* user being told when there are none.
check_results(rs) ==
    [ok |-> rs # <<>>,
     effects |-> IF rs = <<>> THEN <<Effect("send", "no results")>> ELSE <<>>]

InitCommand ==
    /\ cmd \in Commands
    /\ query \in CommandQueries
    /\ data = <<>>
    /\ results = <<>>
    /\ pages = <<>>
    /\ pc = "start"
    /\ err = NoError
    /\ current = 0
    /\ shown = NoPage
    /\ response = "pending"
    /\ effects = <<>>
    /\ NoImageCommand

\* The blocked-term test, then ctx.typing().
Start ==
    /\ pc = "start"
    /\ IF Blocked(cmd, query)
       THEN /\ effects' = Append(effects, Effect("send", "blocked"))
            /\ pc' = "done"
       ELSE /\ effects' = Append(effects, Effect("typing", ""))
            /\ pc' = "search"
    /\ UNCHANGED <<cmd, query, data, results, pages, err, current, shown>>
    /\ UNCHANGED <<response, args, tokens, model, size, seed, strength, guidance, prompt>>

\* data = await search_media(...), and the return when it is falsy.
SearchMedia ==
    /\ pc = "search"
    /\ \E r \in search_media_returns :
          /\ response' = r
          /\ \/ r = "None" /\ data' = <<>>
             \/ /\ r = "dict"
                /\ \E n \in 0..MaxLen : \E tp \in [1..n -> Shapes] : data' = ResultList(cmd, tp)
          /\ IF Falsy(r)
             THEN /\ effects' = effects \o <<Effect("search", query), Effect("send", "tmdb error")>>
                  /\ pc' = "done"
             ELSE /\ effects' = Append(effects, Effect("search", query))
                  /\ pc' = "check"
    /\ UNCHANGED <<cmd, query, results, pages, err, current, shown, args, tokens, model, size, seed, strength, guidance, prompt>>

\* if not await check_results(...): return; then pages = [] and
\* results = data["results"].
CheckResults ==
    /\ pc = "check"
    /\ IF response # "dict"
       THEN Raise(Raised("TypeError", "results"))
       ELSE LET out == check_results(data)
            IN /\ effects' = effects \o out.effects
               /\ pc' = IF out.ok THEN "normalize" ELSE "done"
               /\ results' = IF out.ok THEN data ELSE results
               /\ UNCHANGED <<pages, err>>
    /\ UNCHANGED <<cmd, query, data, current, shown, response, args, tokens, model, size, seed, strength, guidance, prompt>>

NextCommand ==
    \/ Start
    \/ SearchMedia
    \/ CheckResults
    \/ Normalize
    \/ Rank
    \/ BuildPage
    \/ StartMenu
    \/ \E i \in DOMAIN pages : ShowPage(i)

SpecCommand == InitCommand /\ [][NextCommand]_vars

(***************************************************************************)
(* The image commands: imgGen._gen ("gen") and FluxImgGen._gen ("flux").   *)
(* Optional[str] locals are sequences of length at most one: <<>> is None. *)
(***************************************************************************)
ImageCommands == {"gen", "flux"}

\* Most words in one args string drawn as input.
MaxArgs == 2

\* imgGen.model_mapping
GenModelMapping ==
    \* 'sdxl': '@cf/stabilityai/stable-diffusion-xl-base-1.0'
    (<<115, 100, 120, 108>> :>
          <<64, 99, 102, 47, 115, 116, 97, 98, 105, 108, 105, 116, 121, 97, 105, 47, 115, 116, 97, 98, 108, 101, 45, 100, 105, 102, 102, 117, 115, 105, 111, 110, 45, 120, 108, 45, 98, 97, 115, 101, 45, 49, 46, 48>>)
    \* 'dreamshaper': '@cf/lykon/dreamshaper-8-lcm'
    @@ (<<100, 114, 101, 97, 109, 115, 104, 97, 112, 101, 114>> :>
          <<64, 99, 102, 47, 108, 121, 107, 111, 110, 47, 100, 114, 101, 97, 109, 115, 104, 97, 112, 101, 114, 45, 56, 45, 108, 99, 109>>)
    \* 'sdxl-lightning': '@cf/bytedance/stable-diffusion-xl-lightning'
    @@ (<<115, 100, 120, 108, 45, 108, 105, 103, 104, 116, 110, 105, 110, 103>> :>
          <<64, 99, 102, 47, 98, 121, 116, 101, 100, 97, 110, 99, 101, 47, 115, 116, 97, 98, 108, 101, 45, 100, 105, 102, 102, 117, 115, 105, 111, 110, 45, 120, 108, 45, 108, 105, 103, 104, 116, 110, 105, 110, 103>>)

\* FluxImgGen.model_mapping
FluxModelMapping ==
    \* 'base': 'flux'
    (<<98, 97, 115, 101>> :>
          <<102, 108, 117, 120>>)
    \* 'realism': 'flux-realism'
    @@ (<<114, 101, 97, 108, 105, 115, 109>> :>
          <<102, 108, 117, 120, 45, 114, 101, 97, 108, 105, 115, 109>>)
    \* '3d': 'flux-3d'
    @@ (<<51, 100>> :>
          <<102, 108, 117, 120, 45, 51, 100>>)
    \* 'anime': 'flux-anime'
    @@ (<<97, 110, 105, 109, 101>> :>
          <<102, 108, 117, 120, 45, 97, 110, 105, 109, 101>>)
    \* 'disney': 'flux-disney'
    @@ (<<100, 105, 115, 110, 101, 121>> :>
          <<102, 108, 117, 120, 45, 100, 105, 115, 110, 101, 121>>)

model_mapping(c) == IF c = "gen" THEN GenModelMapping ELSE FluxModelMapping

MappingValues(c) == {model_mapping(c)[k] : k \in DOMAIN model_mapping(c)}

\* dict.get(key, default)
Get(d, key, default) == IF key \in DOMAIN d THEN d[key] ELSE default

\* '--model='
ModelFlag == <<45, 45, 109, 111, 100, 101, 108, 61>>

\* '--strength='
StrengthFlag == <<45, 45, 115, 116, 114, 101, 110, 103, 116, 104, 61>>

\* '--guidance='
GuidanceFlag == <<45, 45, 103, 117, 105, 100, 97, 110, 99, 101, 61>>

\* '--size='
SizeFlag == <<45, 45, 115, 105, 122, 101, 61>>

\* '--seed='
SeedFlag == <<45, 45, 115, 101, 101, 100, 61>>

\* The words an args string is made of: 'cat', '--model=sdxl', '--model=SDXL-Lightning', '--model=base', '--model=Anime',
\* '--model=nope', '--model=', '--strength=1.5', '--strength=high', '--guidance=7',
\* '--size=16:9', '--size=wide', '--seed=42', '--seed=x'.
ArgWords ==
    { <<99, 97, 116>>,
      <<45, 45, 109, 111, 100, 101, 108, 61, 115, 100, 120, 108>>,
      <<45, 45, 109, 111, 100, 101, 108, 61, 83, 68, 88, 76, 45, 76, 105, 103, 104, 116, 110, 105, 110, 103>>,
      <<45, 45, 109, 111, 100, 101, 108, 61, 98, 97, 115, 101>>,
      <<45, 45, 109, 111, 100, 101, 108, 61, 65, 110, 105, 109, 101>>,
      <<45, 45, 109, 111, 100, 101, 108, 61, 110, 111, 112, 101>>,
      <<45, 45, 109, 111, 100, 101, 108, 61>>,
      <<45, 45, 115, 116, 114, 101, 110, 103, 116, 104, 61, 49, 46, 53>>,
      <<45, 45, 115, 116, 114, 101, 110, 103, 116, 104, 61, 104, 105, 103, 104>>,
      <<45, 45, 103, 117, 105, 100, 97, 110, 99, 101, 61, 55>>,
      <<45, 45, 115, 105, 122, 101, 61, 49, 54, 58, 57>>,
      <<45, 45, 115, 105, 122, 101, 61, 119, 105, 100, 101>>,
      <<45, 45, 115, 101, 101, 100, 61, 52, 50>>,
      <<45, 45, 115, 101, 101, 100, 61, 120>> }

\* The configured default model (self.tokens["model"], never empty): 'sdxl', 'Base', 'nope'.
DefaultModels ==
    { <<115, 100, 120, 108>>,
      <<66, 97, 115, 101>>,
      <<110, 111, 112, 101>> }

RECURSIVE split(_, _, _, _)
\* str.split(sep) for a one-character sep, from position i on with cur the
\* piece being read: empty pieces are kept.
split(s, sep, i, cur) ==
    IF i > Len(s)
    THEN <<cur>>
    ELSE IF s[i] = sep
         THEN <<cur>> \o split(s, sep, i + 1, <<>>)
         ELSE split(s, sep, i + 1, Append(cur, s[i]))

\* str.startswith(p)
startswith(s, p) == Len(s) >= Len(p) /\ SubSeq(s, 1, Len(p)) = p

RECURSIVE join(_)
\* " ".join(parts)
join(parts) ==
    IF parts = <<>> THEN <<>>
    ELSE IF Len(parts) = 1 THEN parts[1]
         ELSE parts[1] \o <<32>> \o join(Tail(parts))

\* arg.split("=")[1]
FlagValue(arg) == split(arg, 61, 1, <<>>)[2]

IsDigit(c) == c \in 48..57

\* An optional sign stripped.
Unsigned(s) == IF s # <<>> /\ s[1] \in {43, 45} THEN Tail(s) ELSE s

\* Whether float(s) returns: digits with at most one point among them, after
\* an optional sign (exponents, inf, nan, underscores and surrounding blanks,
\* which Python also accepts, are not among the words drawn).
IsFloat(s) ==
    LET u == Unsigned(s)
    IN /\ \E k \in DOMAIN u : IsDigit(u[k])
       /\ \A k \in DOMAIN u : IsDigit(u[k]) \/ u[k] = 46
       /\ Cardinality({k \in DOMAIN u : u[k] = 46}) <= 1

\* Whether int(s) returns: digits after an optional sign.
IsInt(s) ==
    LET u == Unsigned(s)
    IN u # <<>> /\ \A k \in DOMAIN u : IsDigit(u[k])

RECURSIVE DigitsValue(_, _)
DigitsValue(u, acc) ==
    IF u = <<>> THEN acc ELSE DigitsValue(Tail(u), 10 * acc + (u[1] - 48))

\* int(s), for s with IsInt(s)
IntOf(s) ==
    IF s[1] = 45 THEN 0 - DigitsValue(Unsigned(s), 0) ELSE DigitsValue(Unsigned(s), 0)

\* re.match(r"^\d+:\d+$", s)
MatchesRatio(s) ==
    \E k \in 2..(Len(s) - 1) :
        /\ s[k] = 58
        /\ \A j \in DOMAIN s : j # k => IsDigit(s[j])

\* The locals of _gen before the loop, seed0 being random.randint(1, 100000)
\* in flux (gen has no seed).
NoLocals(seed0) ==
    [model |-> <<>>, size |-> <<>>, seed |-> seed0, strength |-> <<>>,
     guidance |-> <<>>, prompt_parts |-> <<>>, sent |-> <<>>, stop |-> "no"]

\* One pass of the loop's body in imgGen._gen.
GenArg(st, arg) ==
    IF startswith(arg, ModelFlag)
    THEN [st EXCEPT !.model = <<FlagValue(arg)>>]
    ELSE IF startswith(arg, StrengthFlag)
    THEN IF IsFloat(FlagValue(arg))
         THEN [st EXCEPT !.strength = <<FlagValue(arg)>>]
         ELSE [st EXCEPT !.sent = Append(@, Effect("send", "invalid strength"))]
    ELSE IF startswith(arg, GuidanceFlag)
    THEN IF IsFloat(FlagValue(arg))
         THEN [st EXCEPT !.guidance = <<FlagValue(arg)>>]
         ELSE [st EXCEPT !.sent = Append(@, Effect("send", "invalid guidance"))]
    ELSE [st EXCEPT !.prompt_parts = Append(@, arg)]

\* One pass of the loop's body in FluxImgGen._gen: a size that is no ratio
\* ends the handler after its message, a seed that is no integer raises.
FluxArg(st, arg) ==
    IF startswith(arg, ModelFlag)
    THEN [st EXCEPT !.model = <<FlagValue(arg)>>]
    ELSE IF startswith(arg, SizeFlag)
    THEN IF MatchesRatio(FlagValue(arg))
         THEN [st EXCEPT !.size = <<FlagValue(arg)>>]
         ELSE [st EXCEPT !.size = <<FlagValue(arg)>>,
                         !.sent = Append(@, Effect("send", "invalid size")),
                         !.stop = "return"]
    ELSE IF startswith(arg, SeedFlag)
    THEN IF IsInt(FlagValue(arg))
         THEN [st EXCEPT !.seed = IntOf(FlagValue(arg))]
         ELSE [st EXCEPT !.stop = "ValueError"]
    ELSE [st EXCEPT !.prompt_parts = Append(@, arg)]

RECURSIVE ParseLoop(_, _, _, _)
\* for arg in args_list: ...
ParseLoop(c, args_list, i, st) ==
    IF i > Len(args_list) \/ st.stop # "no"
    THEN st
    ELSE ParseLoop(c, args_list, i + 1,
                   IF c = "gen" THEN GenArg(st, args_list[i])
                                ELSE FluxArg(st, args_list[i]))

\* Faulty variant: the membership test of _generate_image left out.
KnownModelAlways(c, m) == TRUE

\* model.lower() in self.model_mapping
KnownModel(c, m) == lower(m) \in DOMAIN model_mapping(c)

\* _generate_image up to its call of _request: model = model or
\* default_model, DiffusionError when it is no key, else the mapped name.
generate_image(c, m, default_model) ==
    LET chosen == IF m = <<>> \/ m[1] = <<>> THEN default_model ELSE m[1]
    IN IF ~KnownModel(c, chosen)
       THEN [raised |-> TRUE, model |-> chosen]
       ELSE [raised |-> FALSE, model |-> Get(model_mapping(c), lower(chosen), chosen)]

\* What session.post / session.get can end in: status 200, another status
\* (DiffusionError in _request), or aiohttp.ClientResponseError.
RequestOutcomes == {"200", "status", "ClientResponseError"}

\* random.randint(1, 100000): its two ends.
RandomSeeds == {1, 100000}

InitImage ==
    /\ cmd \in ImageCommands
    /\ \E d \in DefaultModels : tokens = [model |-> d]
    /\ \E n \in 1..MaxArgs : \E ws \in [1..n -> ArgWords] : args = join(ws)
    /\ model = <<>>
    /\ size = <<>>
    /\ seed = 0
    /\ strength = <<>>
    /\ guidance = <<>>
    /\ prompt = <<>>
    /\ query = <<>>
    /\ data = <<>>
    /\ results = <<>>
    /\ pages = <<>>
    /\ pc = "start"
    /\ err = NoError
    /\ current = 0
    /\ shown = NoPage
    /\ response = "pending"
    /\ effects = <<>>

\* ctx.typing(), args.split(" ") and the loop over the words.
ParseArgs ==
    /\ pc = "start"
    /\ cmd \in ImageCommands
    /\ \E seed0 \in (IF cmd = "flux" THEN RandomSeeds ELSE {0}) :
          LET st == ParseLoop(cmd, split(args, 32, 1, <<>>), 1, NoLocals(seed0))
          IN /\ model' = st.model
             /\ size' = st.size
             /\ seed' = st.seed
             /\ strength' = st.strength
             /\ guidance' = st.guidance
             /\ prompt' = IF st.stop = "no" THEN join(st.prompt_parts) ELSE prompt
             /\ effects' = Append(effects, Effect("typing", "")) \o st.sent
             /\ pc' = CASE st.stop = "no" -> "generate"
                        [] st.stop = "return" -> "done"
                        [] OTHER -> "raised"
             /\ err' = IF st.stop = "ValueError" THEN Raised("ValueError", "seed") ELSE err
    /\ UNCHANGED <<cmd, query, data, results, pages, current, shown, response, args, tokens>>

\* image_data = await self._generate_image(...) and its two except clauses.
GenerateImage ==
    /\ pc = "generate"
    /\ LET g == generate_image(cmd, model, tokens.model)
       IN IF g.raised
          THEN /\ effects' = Append(effects, Effect("send", "went wrong"))
               /\ pc' = "done"
               /\ UNCHANGED response
          ELSE \E outcome \in RequestOutcomes :
                  /\ response' = outcome
                  /\ effects' = Append(effects, Effect("http", g.model)) \o
                         (CASE outcome = "200" -> <<>>
                            [] outcome = "status" -> <<Effect("send", "went wrong")>>
                            [] OTHER -> <<Effect("send", "error status")>>)
                  /\ pc' = IF outcome = "200" THEN "file" ELSE "done"
    /\ UNCHANGED <<cmd, query, data, results, pages, err, current, shown>>
    /\ UNCHANGED <<args, tokens, model, size, seed, strength, guidance, prompt>>

\* _image_to_file and ctx.send(embed=..., file=file).
SendImage ==
    /\ pc = "file"
    /\ effects' = Append(effects, Effect("send", "image"))
    /\ pc' = "done"
    /\ UNCHANGED <<cmd, query, data, results, pages, err, current, shown, response>>
    /\ UNCHANGED <<args, tokens, model, size, seed, strength, guidance, prompt>>

NextImage ==
    \/ ParseArgs
    \/ GenerateImage
    \/ SendImage

SpecImage == InitImage /\ [][NextImage]_vars

(***************************************************************************)
(* Vocabulary of the properties.                                           *)
(***************************************************************************)
Zero == Frac(0, 1)

Hundred == Frac(100, 1)

\* The raw popularity of an input result; a movie without one counts as 0.
RawPopularity(r) == IF "popularity" \in DOMAIN r THEN r["popularity"] ELSE 0

\* The input result an output result comes from (ids are distinct).
Origin(x) == data[CHOOSE k \in DOMAIN data : data[k]["id"] = x["id"]]

InputPosition(x) == CHOOSE k \in DOMAIN data : data[k]["id"] = x["id"]

\* Normalization was run and raised.
NormalizeRaised ==
    /\ pc = "raised"
    /\ err \in {Raised("ValueError", "max"), Raised("KeyError", "popularity"),
                Raised("ZeroDivisionError", "division by zero")}

\* Normalization was run and rebound results to the normalized list.
NormalizeCompleted == pc # "normalize" /\ ~NormalizeRaised

\* Ranking was run and rebound results to the sorted list.
RankCompleted == pc \in {"pages", "menu"}

\* The rank score the specification defines: similarity of the query to the
\* title (movie) or name (tvshow, people), plus the normalized popularity.
SpecRankScore(x) == FracAdd(Similarity[query, x[TextField(cmd)]], x["popularity"])

Count(s, x) == Cardinality({k \in DOMAIN s : s[k] = x})

AllRawPopularityZero ==
    /\ data # <<>>
    /\ \A k \in DOMAIN data : "popularity" \in DOMAIN data[k] /\ data[k]["popularity"] = 0

MaxRawPopularityPositive ==
    /\ data # <<>>
    /\ \E k \in DOMAIN data : RawPopularity(data[k]) > 0

HoldsMaxRawPopularity(r) ==
    \A k \in DOMAIN data : RawPopularity(data[k]) <= RawPopularity(r)

MissingText == \E k \in DOMAIN data : TextField(cmd) \notin DOMAIN data[k]

\* C1: in each command, a non-empty result list whose raw popularities are
\* all 0 is normalized without a division by zero, every normalized
\* popularity being 0.
C1_AllZeroNormalizesToZero ==
    (AllRawPopularityZero /\ pc # "normalize") =>
        /\ NormalizeCompleted
        /\ \A k \in DOMAIN results : FracEq(results[k]["popularity"], Zero)

\* C2 as stated: when the maximum raw popularity is positive, exactly one
\* result has normalized popularity 100, also when several share the maximum.
C2_ExactlyOneHundred ==
    (MaxRawPopularityPositive /\ NormalizeCompleted) =>
        Cardinality({k \in DOMAIN results : FracEq(results[k]["popularity"], Hundred)}) = 1

\* C2 amended: when the maximum raw popularity is positive, the results with
\* normalized popularity 100 are exactly those holding the maximum raw
\* popularity, and there is at least one.
C2_MaxHoldersGetHundred ==
    (MaxRawPopularityPositive /\ NormalizeCompleted) =>
        /\ \E k \in DOMAIN results : FracEq(results[k]["popularity"], Hundred)
        /\ \A k \in DOMAIN results :
              FracEq(results[k]["popularity"], Hundred) <=> HoldsMaxRawPopularity(Origin(results[k]))

C2_SharedMaximum ==
    /\ pc = "rank"
    /\ MaxRawPopularityPositive
    /\ Cardinality({k \in DOMAIN data : HoldsMaxRawPopularity(data[k])}) >= 2

\* C3: ranking neither drops nor duplicates a result: its output is a
\* permutation of its input, of the same length, and the empty list is ranked
\* to the empty list without an error.
C3_RankPermutes ==
    [][pc = "rank" =>
        /\ results = <<>> => (pc' = "pages" /\ results' = <<>>)
        /\ pc' = "pages" =>
              /\ Len(results') = Len(results)
              /\ \A k \in DOMAIN results : Count(results', results[k]) = Count(results, results[k])
              /\ {results'[k]["id"] : k \in DOMAIN results'} = {results[k]["id"] : k \in DOMAIN results}]_vars

C3_Reordered ==
    /\ pc = "pages"
    /\ Len(results) = MaxLen
    /\ results[1]["id"] > results[2]["id"]

\* C4: the ranked output is sorted non-increasing by rank score, and results of
\* equal rank score keep the relative order they had in the input.
C4_SortedStable ==
    RankCompleted =>
        \A i, j \in DOMAIN results :
            i < j =>
                /\ FracLe(SpecRankScore(results[j]), SpecRankScore(results[i]))
                /\ FracEq(SpecRankScore(results[j]), SpecRankScore(results[i]))
                      => InputPosition(results[i]) < InputPosition(results[j])

\* Two results of different text tie, in a list the ranking reordered.
C4_TieKeptInOrder ==
    /\ RankCompleted
    /\ \E k \in DOMAIN results : InputPosition(results[k]) # k
    /\ \E i \in DOMAIN results :
          /\ i + 1 \in DOMAIN results
          /\ FracEq(SpecRankScore(results[i]), SpecRankScore(results[i + 1]))
          /\ results[i][TextField(cmd)] # results[i + 1][TextField(cmd)]

\* C5 as stated: normalizing an empty result list raises the EmptyInput error.
C5_EmptyRaisesEmptyInput ==
    (data = <<>> /\ pc # "normalize") => (pc = "raised" /\ err.type = "EmptyInput")

\* C5 amended: normalizing an empty result list raises the ValueError of max()
\* on an empty sequence; the handler ends there, with no page and no menu.
C5_EmptyRaisesValueError ==
    (data = <<>> /\ pc # "normalize") =>
        /\ pc = "raised"
        /\ err = Raised("ValueError", "max")
        /\ pages = <<>> /\ current = 0 /\ shown = NoPage
        /\ ~ENABLED Next

C5_EmptyNormalized == data = <<>> /\ pc = "raised"

\* C6: every normalized popularity lies in [0, 100], and every rank score in
\* [0, 200].
C6_PopularityInRange ==
    NormalizeCompleted =>
        \A k \in DOMAIN results :
            /\ FracLe(Zero, results[k]["popularity"])
            /\ FracLe(results[k]["popularity"], Hundred)
            /\ TextField(cmd) \in DOMAIN results[k] =>
                  /\ FracLe(Zero, SpecRankScore(results[k]))
                  /\ FracLe(SpecRankScore(results[k]), Frac(200, 1))

C6_MixedPopularities ==
    /\ pc = "rank"
    /\ Len(results) >= 2
    /\ \E k \in DOMAIN results :
          /\ FracLt(Zero, results[k]["popularity"])
          /\ FracLt(results[k]["popularity"], Hundred)
          /\ TextField(cmd) \in DOMAIN results[k]

\* C7: normalization keeps length and positions, passes every field other than
\* popularity through unchanged, and leaves the caller's records as they were.
C7_NormalizePassesThrough ==
    [][(pc = "normalize" /\ pc' = "rank") =>
        /\ data' = data
        /\ Len(results') = Len(data)
        /\ \A k \in DOMAIN data :
              /\ DOMAIN results'[k] = DOMAIN data[k] \cup {"popularity"}
              /\ \A f \in DOMAIN data[k] \ {"popularity"} : results'[k][f] = data[k][f]]_vars

C7_Normalized ==
    /\ pc = "rank"
    /\ Len(results) = MaxLen
    /\ \E k \in DOMAIN results : TextField(cmd) \in DOMAIN results[k]
    /\ \E k \in DOMAIN data : "popularity" \notin DOMAIN data[k]

\* C8: the menu holds one page per ranked result, page i built from the id of
\* the result at rank i; the pages stay as built, and the page shown is the one
\* requested by index, however often it is requested.
C8_OnePagePerResult ==
    [][pc' = "menu" =>
        /\ Len(pages') = Len(results')
        /\ \A i \in DOMAIN pages' : pages'[i].id = results'[i]["id"] /\ pages'[i].index = i
        /\ current' \in DOMAIN pages' /\ shown' = pages'[current']
        /\ pc = "menu" => (pages' = pages /\ results' = results)]_vars

C8_SecondPageShown ==
    /\ pc = "menu"
    /\ Len(pages) = MaxLen
    /\ current = 2
    /\ results[2]["id"] # 2

\* C10 as stated: a result without the comparison text makes ranking raise the
\* MissingField error.
C10_MissingFieldRaised ==
    (MissingText /\ NormalizeCompleted /\ pc # "rank") =>
        (pc = "raised" /\ err.type = "MissingField")

\* C10 amended: a result without the comparison text makes ranking raise
\* KeyError for that field; the handler ends there without retry, and no
\* page and no menu exist.
C10_MissingTextRaisesKeyError ==
    (MissingText /\ NormalizeCompleted /\ pc # "rank") =>
        /\ pc = "raised"
        /\ err = Raised("KeyError", TextField(cmd))
        /\ pages = <<>> /\ current = 0 /\ shown = NoPage
        /\ ~ENABLED Next

C10_RankRaised ==
    /\ pc = "raised"
    /\ MissingText
    /\ NormalizeCompleted
    /\ Len(data) >= 2
    /\ \E k \in DOMAIN data : TextField(cmd) \in DOMAIN data[k]


\* "family guy", "Family Guy", "Family Matters"
FamilyGuyQuery == <<102, 97, 109, 105, 108, 121, 32, 103, 117, 121>>

FamilyGuy == <<70, 97, 109, 105, 108, 121, 32, 71, 117, 121>>

FamilyMatters == <<70, 97, 109, 105, 108, 121, 32, 77, 97, 116, 116, 101, 114, 115>>

\* The input of the scenario: id 1 "Family Guy" of popularity 50, id 2
\* "Family Matters" of popularity 100, searched with "family guy".
FamilyScenario ==
    /\ cmd \in {"tvshow", "people"}
    /\ query = FamilyGuyQuery
    /\ data = <<ResultDict(cmd, 1, FamilyGuy, 50), ResultDict(cmd, 2, FamilyMatters, 100)>>

NormalizedPopularityOf(id) ==
    results[CHOOSE k \in DOMAIN results : results[k]["id"] = id]["popularity"]

\* C11 as stated: in the scenario the normalized popularities are 50 and 100,
\* the similarity of the query to "Family Guy" is 100 and to "Family Matters"
\* below 100, and the ranked order is id 1, id 2.
C11_FamilyGuyFirst ==
    (FamilyScenario /\ RankCompleted) =>
        /\ FracEq(NormalizedPopularityOf(1), Frac(50, 1))
        /\ FracEq(NormalizedPopularityOf(2), Hundred)
        /\ FracEq(Similarity[query, FamilyGuy], Hundred)
        /\ FracLt(Similarity[query, FamilyMatters], Hundred)
        /\ <<results[1]["id"], results[2]["id"]>> = <<1, 2>>

\* C11 amended: the normalized popularities are 50 and 100; the scorer, called
\* without a processor, compares case-sensitively and gives 80 for
\* "Family Guy" and 50 for "Family Matters" (100 and 75 were both strings
\* lower-cased first); either way the 50 points of popularity outweigh the
\* difference and the ranked order is id 2, id 1.
C11_FamilyMattersFirst ==
    (FamilyScenario /\ RankCompleted) =>
        /\ FracEq(NormalizedPopularityOf(1), Frac(50, 1))
        /\ FracEq(NormalizedPopularityOf(2), Hundred)
        /\ FracEq(Similarity[query, FamilyGuy], Frac(80, 1))
        /\ FracEq(Similarity[query, FamilyMatters], Frac(50, 1))
        /\ FracEq(token_set_ratio(lower(query), lower(FamilyGuy)), Hundred)
        /\ FracEq(token_set_ratio(lower(query), lower(FamilyMatters)), Frac(75, 1))
        /\ <<results[1]["id"], results[2]["id"]>> = <<2, 1>>

C11_ScenarioRanked == FamilyScenario /\ RankCompleted /\ Len(pages) = Len(results)


\* The handler went past the result check, to the normalization or beyond.
PastResultCheck == pc \in {"normalize", "rank", "pages", "menu", "raised"}

\* The search returned nothing, or the result check was run and failed.
SearchFailed == response = "None" \/ (response = "dict" /\ data = <<>> /\ pc # "check")

\* C12: normalization and ranking are reached only after the search returned
\* data and the result check passed; when the search returns nothing or the
\* check fails the command ends with a message to the user, having normalized,
\* ranked, fetched, built and started nothing; so the normalizer never runs on
\* an empty list.
C12_NormalizeOnlyAfterCheck ==
    /\ PastResultCheck =>
          /\ response = "dict" /\ data # <<>>
          /\ Did("search")
          /\ ~Sent("tmdb error") /\ ~Sent("no results")
    /\ SearchFailed =>
          /\ pc = "done"
          /\ effects[Len(effects)].op = "send"
          /\ results = <<>> /\ pages = <<>> /\ current = 0 /\ err = NoError
          /\ ~Did("fetch") /\ ~Did("menu")
          /\ ~ENABLED NextCommand
    /\ pc = "normalize" => results # <<>>
    /\ err.type # "ValueError"

C12_NoResultsEnded == pc = "done" /\ response = "dict" /\ data = <<>> /\ Sent("no results")

\* C13: in movie and tvshow, a query whose lower-cased form is a blocked term
\* gets the 'blocked from search' message and nothing else: no search request,
\* no fetch, no ranking, no menu.  people blocks nothing.
C13_BlockedTermStops ==
    /\ (cmd \in {"movie", "tvshow"} /\ lower(query) \in BLOCKED_SEARCH /\ pc # "start") =>
          /\ pc = "done"
          /\ Len(effects) = 1 /\ Sent("blocked")
          /\ response = "pending" /\ results = <<>> /\ pages = <<>> /\ current = 0
          /\ ~ENABLED NextCommand
    /\ (cmd = "people" /\ pc # "start") => (Did("typing") /\ ~Sent("blocked"))

\* A blocked term typed with a capital letter, in tvshow.
C13_CapitalizedTermBlocked ==
    /\ cmd = "tvshow"
    /\ query # lower(query)
    /\ lower(query) \in BLOCKED_SEARCH
    /\ pc = "done"

\* The values of the --model= words of args, in order.
ModelFlagValues ==
    LET words == split(args, 32, 1, <<>>)
        flags == SelectSeq(words, LAMBDA w : startswith(w, ModelFlag))
    IN [k \in DOMAIN flags |-> FlagValue(flags[k])]

\* The model the claim calls effective: the flag's value when there is a flag
\* (the last one when there are several), the configured default otherwise.
FlagOrDefaultModel ==
    IF ModelFlagValues = <<>> THEN tokens.model
    ELSE ModelFlagValues[Len(ModelFlagValues)]

\* The model a completed loop leaves to _generate_image: as above, but an
\* empty flag value (--model=) also gives the configured default.
RequestedModel == IF FlagOrDefaultModel = <<>> THEN tokens.model ELSE FlagOrDefaultModel

\* Whether that model, lower-cased, is a key of the command's mapping.
RequestedModelIsKey == lower(RequestedModel) \in DOMAIN model_mapping(cmd)

Finished == pc \in {"done", "raised"}

\* The loop over the words did not run to its end: the size message of flux
\* was sent, or int() raised on the seed.
StoppedInLoop == Sent("invalid size") \/ err.type = "ValueError"

Times(o) == Cardinality({k \in DOMAIN effects : effects[k].op = o})

TimesSent(what) ==
    Cardinality({k \in DOMAIN effects : effects[k].op = "send" /\ effects[k].arg = what})

RequestsOnlyMappedModels ==
    \A k \in DOMAIN effects :
        effects[k].op = "http" => effects[k].arg \in MappingValues(cmd)

\* C14 as stated: whenever the flag's value (the default without a flag),
\* lower-cased, is no key of the mapping, the finished command sent no HTTP
\* request, one 'Something went wrong' message and no image; and a request
\* carries a mapping value only.
C14_UnknownModelAlwaysOneError ==
    /\ (Finished /\ lower(FlagOrDefaultModel) \notin DOMAIN model_mapping(cmd)) =>
          /\ ~Did("http")
          /\ TimesSent("went wrong") = 1
          /\ ~Sent("image")
    /\ RequestsOnlyMappedModels

\* C14, amended: a request carries a mapping value only, and there is at most
\* one.  When the loop over the words ran to its end and the last --model=
\* value (the default when there is no flag or the value is empty),
\* lower-cased, is no key of the mapping: no request, exactly one 'Something
\* went wrong' message, sent last, and no image.  When it is a key: exactly
\* one request, with the value mapped to it.  When the loop was left early
\* (flux only: a --size= value that is no ratio, or a --seed= value that is no
\* integer): no request, no image and no 'Something went wrong' message,
\* whatever the model.
C14_UnknownModelNoRequest ==
    /\ RequestsOnlyMappedModels
    /\ Times("http") <= 1
    /\ cmd = "gen" => ~StoppedInLoop
    /\ (Finished /\ StoppedInLoop) =>
          /\ ~Did("http") /\ ~Sent("image") /\ ~Sent("went wrong")
          /\ (Sent("invalid size") <=> pc = "done")
    /\ (Finished /\ ~StoppedInLoop /\ ~RequestedModelIsKey) =>
          /\ ~Did("http")
          /\ TimesSent("went wrong") = 1
          /\ effects[Len(effects)].arg = "went wrong"
          /\ ~Sent("image")
          /\ pc = "done"
    /\ (Finished /\ ~StoppedInLoop /\ RequestedModelIsKey) =>
          /\ Times("http") = 1
          /\ \E k \in DOMAIN effects :
                /\ effects[k].op = "http"
                /\ effects[k].arg = model_mapping(cmd)[lower(RequestedModel)]
          /\ Sent("image") <=> response = "200"

\* flux, an unknown model and a size that is no ratio: the command ended on
\* the size message.
C14_UnknownModelSizeRejected ==
    /\ cmd = "flux"
    /\ pc = "done"
    /\ ModelFlagValues # <<>>
    /\ ~RequestedModelIsKey
    /\ Sent("invalid size")

====
